---- MODULE Spec2Model ----
(***************************************************************************)
(* Model of the segment pipeline of the document translation workbench:    *)
(* MockTranslationBackend (services/mockBackend.ts), the translation       *)
(* client (services/geminiService.ts) and the callers in App.tsx.          *)
(*                                                                         *)
(* Text is a sequence of characters.  The character "X" stands for a block *)
(* of BigBlock letters, so that a batch can reach MAX_BATCH_CHARS.         *)
(* A JavaScript task runs to completion: an action is one task, from its   *)
(* entry to the next await that really suspends.                           *)
(***************************************************************************)
EXTENDS Integers, Sequences, FiniteSets, TLC

\* ---------------------------------------------------------------- bounds
MaxJobs == 2
MaxSegs == 3
MaxPage == 5
BigBlock == 1000

\* ------------------------------------------------------ program constants
MAX_BATCH_CHARS == 2000
DELIMITER == <<" ", "|", "|", "|", " ">>

\* ------------------------------------------------------------------ text
IsSpace(c) == c = " "

CharLen(c) == IF c = "X" THEN BigBlock ELSE 1

RECURSIVE StrLen(_)
StrLen(t) == IF t = << >> THEN 0 ELSE CharLen(Head(t)) + StrLen(Tail(t))

RECURSIVE TrimStart(_)
TrimStart(t) ==
  IF t # << >> /\ IsSpace(Head(t)) THEN TrimStart(Tail(t)) ELSE t

RECURSIVE TrimEnd(_)
TrimEnd(t) ==
  IF t # << >> /\ IsSpace(t[Len(t)]) THEN TrimEnd(SubSeq(t, 1, Len(t) - 1)) ELSE t

Trim(t) == TrimEnd(TrimStart(t))

RECURSIVE Join(_, _)
Join(parts, sep) ==
  IF parts = << >> THEN << >>
  ELSE IF Len(parts) = 1 THEN parts[1]
  ELSE parts[1] \o sep \o Join(Tail(parts), sep)

\* first position of "|||" in t, 0 when there is none
FindPipes(t) ==
  LET hits == {k \in 1..(Len(t) - 2) : t[k] = "|" /\ t[k + 1] = "|" /\ t[k + 2] = "|"}
  IN IF hits = {} THEN 0 ELSE CHOOSE k \in hits : \A h \in hits : k <= h

\* String.prototype.split(/\s*\|\|\|\s*/): the leftmost match starts at the
\* white space before the first "|||" and ends after the white space behind it
RECURSIVE Split(_)
Split(t) ==
  LET k == FindPipes(t)
  IN IF k = 0 THEN <<t>>
     ELSE <<TrimEnd(SubSeq(t, 1, k - 1))>> \o Split(TrimStart(SubSeq(t, k + 3, Len(t))))

\* ------------------------------------------------------------ data model
\* 0 stands for an absent pageNumber / pageCount, NoRange for an absent range
NoRange == [start |-> 0, end |-> 0]

Node(text, page) == [text |-> text, page |-> page]

Digit(i) == <<"0", "1", "2", "3", "4", "5", "6", "7", "8", "9">>[i + 1]

RECURSIVE Decimal(_)
Decimal(i) == IF i < 10 THEN <<Digit(i)>> ELSE Decimal(i \div 10) \o <<Digit(i % 10)>>

PageLabel(i) == <<"P", "a", "g", "e", " ">> \o Decimal(i)

SlideLabel(i) == <<"S", "l", "i", "d", "e", " ">> \o Decimal(i)

EmptyPage == <<"E", "m", "p", "t", "y", " ", "P", "a", "g", "e">>

ErrorMarker == <<"E", "r", "r", "o", "r">>

RECURSIVE Flatten(_)
Flatten(ss) == IF ss = << >> THEN << >> ELSE Head(ss) \o Flatten(Tail(ss))

IsBlank(t) == Trim(t) = << >>

\* the text nodes of one PDF page: its number label, then its non-blank
\* paragraphs or the "Empty Page" note, all below the data-page element
PdfPageNodes(paras, i) ==
  LET kept == SelectSeq(paras, LAMBDA t : ~IsBlank(t))
  IN <<Node(PageLabel(i), i)>> \o
     (IF kept # << >> THEN [k \in 1..Len(kept) |-> Node(kept[k], i)]
      ELSE <<Node(EmptyPage, i)>>)

\* the text nodes of one slide: no element of a slide carries data-page
SlideNodes(texts, i) ==
  IF texts = << >> THEN << >>
  ELSE <<Node(SlideLabel(i), 0)>> \o [k \in 1..Len(texts) |-> Node(texts[k], 0)]

\* a file is [ext, body]: body is the sequence of its pages (slides), each the
\* sequence of its paragraph texts; a format without pages has one group
parseFileToHtml(file) ==
  IF file.ext = "pdf" THEN
    [nodes |-> Flatten([i \in 1..Len(file.body) |-> PdfPageNodes(file.body[i], i)]),
     pageCount |-> Len(file.body)]
  ELSE IF file.ext = "pptx" THEN
    [nodes |-> Flatten([i \in 1..Len(file.body) |-> SlideNodes(file.body[i], i)]),
     pageCount |-> Len(file.body)]
  ELSE IF file.ext = "bad" THEN
    [nodes |-> <<Node(ErrorMarker, 0)>>, pageCount |-> 0]
  ELSE
    [nodes |-> [k \in 1..Len(file.body[1]) |-> Node(file.body[1][k], 0)], pageCount |-> 0]

Segment(fileId, index, node) ==
  [id |-> <<fileId, index>>, index |-> index, original |-> node.text,
   translated |-> << >>, status |-> "pending", warningMessage |-> << >>,
   pageNumber |-> node.page]

tokenizeHtmlCountsAll(nodes, fileId) ==
  LET at == SelectSeq([k \in 1..Len(nodes) |-> k], LAMBDA k : ~IsBlank(nodes[k].text))
  IN [k \in 1..Len(at) |-> Segment(fileId, at[k] - 1, nodes[at[k]])]

\* one segment per text node whose text is not blank, numbered from 0
tokenizeHtml(nodes, fileId) ==
  LET kept == SelectSeq(nodes, LAMBDA n : ~IsBlank(n.text))
  IN [k \in 1..Len(kept) |-> Segment(fileId, k - 1, kept[k])]

NoJob ==
  [status |-> "none", progress |-> 0, segments |-> << >>, pageCount |-> 0,
   selectedRange |-> NoRange]

NewJob(file, fileId) ==
  LET parsed == parseFileToHtml(file)
  IN [status |-> "idle", progress |-> 0,
      segments |-> tokenizeHtml(parsed.nodes, fileId),
      pageCount |-> IF parsed.pageCount > 0 THEN parsed.pageCount ELSE 0,
      selectedRange |-> NoRange]

\* ------------------------------------------------------------------ state
VARIABLES
  jobs,              \* keys of the jobs Map
  fileStorage,       \* keys of the fileStorage Map
  obj,               \* the FileJob objects by id (a deleted Job's object lives on
                     \* while processFile still holds it)
  fileQueue,
  isProcessingFile,
  run,               \* per id, the suspended processQueue/processFile call for it
  uploading,         \* uploadFile calls waiting for parseFileToHtml
  nextId,            \* next fresh file id
  emitted,           \* messages broadcast by the last task, in order
  accepted,          \* history: ids in the order startProcessing accepted them
  started,           \* history: ids in the order they became processing
  finished,          \* history: ids in the order of their FILE_COMPLETE
  calls,             \* history: per id, the translation client calls made
  lastProgress,      \* history: per id, the last progress sent in FILE_PROGRESS
  client,            \* one call of translateTextSegment: its position and history
  download,          \* what the last generateDownload returned
  docx,              \* a paragraph of word/document.xml under reassembleDocx
  bus                \* the listeners, and whom the last broadcast called

\* the state of MockTranslationBackend, with its histories
backend ==
  <<jobs, fileStorage, obj, fileQueue, isProcessingFile, run, uploading, nextId,
    emitted, accepted, started, finished, calls, lastProgress>>

\* the state outside of it
outside == <<client, download, docx, bus>>

vars == <<backend, outside>>

\* the file ids: MaxJobs of them in the scheduler specification, one more in
\* the queue specification
Ids == 1..(MaxJobs + 1)

NoRun ==
  [pc |-> "none", scope |-> << >>, i |-> 0, batch |-> << >>, chars |-> 0,
   done |-> 0, text |-> << >>]

\* the part of the state a task of the scheduler works on
Cur ==
  [obj |-> obj, fileQueue |-> fileQueue, isProcessingFile |-> isProcessingFile,
   run |-> run, emitted |-> << >>, started |-> started, finished |-> finished,
   calls |-> calls, lastProgress |-> lastProgress]

\* obj is the heap: a FileJob that neither the jobs Map nor a suspended
\* processFile refers to is garbage, and its history goes with it
Live(J, r, j) == j \in J \/ r[j].pc # "none"

Reachable(o, J, r, none) == [j \in DOMAIN o |-> IF Live(J, r, j) THEN o[j] ELSE none]

Commit(s) ==
  /\ obj' = Reachable(s.obj, jobs, s.run, NoJob)
  /\ calls' = Reachable(s.calls, jobs, s.run, << >>)
  /\ lastProgress' = Reachable(s.lastProgress, jobs, s.run, 0)
  /\ fileQueue' = s.fileQueue
  /\ isProcessingFile' = s.isProcessingFile
  /\ run' = s.run
  /\ emitted' = s.emitted
  /\ started' = s.started
  /\ finished' = s.finished

\* the element of a one-element set.  An operator below works on
\* Only({e : s \in {s0}}), which is e with s0 for s and s0 evaluated once: inside
\* ENABLED, TLC evaluates the argument of an operator anew at each of its uses
Only(S) == CHOOSE r \in S : TRUE

Msg(type, fileId, index, payload) ==
  [type |-> type, fileId |-> fileId, index |-> index, payload |-> payload]

broadcast(s, msg) == [s EXCEPT !.emitted = Append(@, msg)]

RECURSIVE broadcastAll(_, _)
broadcastAll(s0, msgs) ==
  Only({
    IF msgs = << >> THEN s ELSE broadcastAll(broadcast(s, Head(msgs)), Tail(msgs))
  : s \in {s0}})

FileProgress(s0, fileId, progress, status, range) ==
  Only({
    [broadcast(s, Msg("FILE_PROGRESS", fileId, -1,
                      [progress |-> progress, status |-> status, selectedRange |-> range]))
     EXCEPT !.lastProgress[fileId] = progress]
  : s \in {s0}})

\* ------------------------------------------------------------ processFile
HasRange(job) == job.selectedRange # NoRange

Max(a, b) == IF a >= b THEN a ELSE b

Min(a, b) == IF a <= b THEN a ELSE b

bufferStart(job) == Max(1, job.selectedRange.start - 1)

bufferEndStrict(job) == Min(job.pageCount, job.selectedRange.end)

bufferEnd(job) == Min(job.pageCount, job.selectedRange.end + 1)

InWindowLax(job, seg) ==
  \/ seg.pageNumber = 0
  \/ seg.pageNumber >= bufferStart(job) /\ seg.pageNumber <= bufferEnd(job)

InWindow(job, seg) ==
  /\ seg.pageNumber # 0
  /\ seg.pageNumber >= bufferStart(job)
  /\ seg.pageNumber <= bufferEnd(job)

Positions(job) == [k \in 1..Len(job.segments) |-> k]

\* positions (in job.segments) of the segments to process, in order
segmentsToProcess(job) ==
  IF HasRange(job) /\ job.pageCount # 0
  THEN SelectSeq(Positions(job), LAMBDA k : InWindow(job, job.segments[k]))
  ELSE Positions(job)

ProgressLeft(done, total) == (200 * (total - done) + total) \div (2 * total)

\* Math.round(done / total * 100)
Progress(done, total) == (200 * done + total) \div (2 * total)

checkBatchCompletionAnySize(s0, J) ==
  Only({
    IF \A j \in J : s.obj[j].status \in {"completed", "error", "idle"}
    THEN broadcast(s, Msg("BATCH_COMPLETE", 0, -1, [batchId |-> "batch"]))
    ELSE s
  : s \in {s0}})

checkBatchCompletion(s0, J) ==
  Only({
    IF (\A j \in J : s.obj[j].status \in {"completed", "error", "idle"}) /\ J # {}
    THEN broadcast(s, Msg("BATCH_COMPLETE", 0, -1, [batchId |-> "batch"]))
    ELSE s
  : s \in {s0}})

CompleteResetsIdle(s0, J, fileId) ==
  Only({
    LET s1 == [s EXCEPT !.obj[fileId].status = "idle",
                        !.obj[fileId].progress = 100,
                        !.finished = Append(@, fileId)]
        s2 == broadcast(s1, Msg("FILE_COMPLETE", fileId, -1, [job |-> s1.obj[fileId]]))
    IN [checkBatchCompletion(s2, J) EXCEPT !.run[fileId] = [NoRun EXCEPT !.pc = "resume"]]
  : s \in {s0}})

\* the end of processFile: the Job is completed and processQueue is resumed
Complete(s0, J, fileId) ==
  Only({
    LET s1 == [s EXCEPT !.obj[fileId].status = "completed",
                        !.obj[fileId].progress = 100,
                        !.finished = Append(@, fileId)]
        s2 == broadcast(s1, Msg("FILE_COMPLETE", fileId, -1, [job |-> s1.obj[fileId]]))
    IN [checkBatchCompletion(s2, J) EXCEPT !.run[fileId] = [NoRun EXCEPT !.pc = "resume"]]
  : s \in {s0}})

TranslatingMsg(s, fileId, k) ==
  Msg("SEGMENT_TRANSLATION", fileId, s.obj[fileId].segments[k].index,
      [translated |-> << >>, original |-> s.obj[fileId].segments[k].original,
       status |-> "translating"])

\* the first half of a flush: up to the await of the rate-limiting timer
FlushBegin(s0, fileId) ==
  Only({
    LET r == s.run[fileId]
        last == r.batch[Len(r.batch)]
        s1 == [s EXCEPT !.obj[fileId].segments[last].status = "translating"]
        s2 == broadcastAll(s1, [k \in 1..Len(r.batch) |-> TranslatingMsg(s1, fileId, r.batch[k])])
        originals == [k \in 1..Len(r.batch) |-> s.obj[fileId].segments[r.batch[k]].original]
    IN [s2 EXCEPT !.run[fileId].pc = "sleep", !.run[fileId].text = Join(originals, DELIMITER)]
  : s \in {s0}})

isBatchFullStrict(chars) == chars > MAX_BATCH_CHARS

isBatchFull(chars) == chars >= MAX_BATCH_CHARS

\* the for loop of processFile from iteration i up to the next await
RECURSIVE ForLoop(_, _, _)
ForLoop(s0, J, fileId) ==
  Only({
    LET r == s.run[fileId]
        total == Len(r.scope)
    IN IF r.i >= total THEN Complete(s, J, fileId)
       ELSE LET pos == r.scope[r.i + 1]
                chars == r.chars + StrLen(s.obj[fileId].segments[pos].original)
                s1 == [s EXCEPT !.run[fileId].batch = Append(@, pos),
                                !.run[fileId].chars = chars]
                isLastSegment == r.i = total - 1
            IN IF isBatchFull(chars) \/ isLastSegment THEN FlushBegin(s1, fileId)
               ELSE ForLoop([s1 EXCEPT !.run[fileId].i = r.i + 1], J, fileId)
  : s \in {s0}})

processFile(s0, J, fileId) ==
  Only({
    IF fileId \notin J THEN [s EXCEPT !.run[fileId] = [NoRun EXCEPT !.pc = "resume"]]
    ELSE LET s1 == [s EXCEPT !.obj[fileId].status = "processing",
                             !.started = Append(@, fileId)]
             s2 == FileProgress(s1, fileId, 0, "processing", NoRange)
             scope == segmentsToProcess(s2.obj[fileId])
         IN IF Len(scope) = 0 THEN Complete(s2, J, fileId)
            ELSE ForLoop([s2 EXCEPT !.run[fileId] = [NoRun EXCEPT !.pc = "loop",
                                                                   !.scope = scope]],
                         J, fileId)
  : s \in {s0}})

processQueueNoFlag(s0, J) ==
  Only({
    IF s.fileQueue = << >> THEN s
    ELSE processFile([s EXCEPT !.isProcessingFile = TRUE, !.fileQueue = Tail(@)],
                     J, Head(s.fileQueue))
  : s \in {s0}})

processQueueLifo(s0, J) ==
  Only({
    IF s.isProcessingFile \/ s.fileQueue = << >> THEN s
    ELSE processFile([s EXCEPT !.isProcessingFile = TRUE,
                               !.fileQueue = SubSeq(@, 1, Len(@) - 1)],
                     J, s.fileQueue[Len(s.fileQueue)])
  : s \in {s0}})

\* processQueue up to its await
processQueue(s0, J) ==
  Only({
    IF s.isProcessingFile \/ s.fileQueue = << >> THEN s
    ELSE processFile([s EXCEPT !.isProcessingFile = TRUE, !.fileQueue = Tail(@)],
                     J, Head(s.fileQueue))
  : s \in {s0}})

AfterBatchKeepsBatch(s0, J, fileId) ==
  Only({
    LET r == s.run[fileId]
        done == r.done + Len(r.batch)
        s1 == FileProgress(s, fileId, Progress(done, Len(r.scope)), "", NoRange)
    IN ForLoop([s1 EXCEPT !.run[fileId] = [r EXCEPT !.pc = "loop", !.done = done,
                                                    !.chars = 0,
                                                    !.text = << >>, !.i = r.i + 1]],
               J, fileId)
  : s \in {s0}})

\* the second half of a flush, after the client call has returned or thrown
AfterBatch(s0, J, fileId) ==
  Only({
    LET r == s.run[fileId]
        done == r.done + Len(r.batch)
        s1 == FileProgress(s, fileId, Progress(done, Len(r.scope)), "", NoRange)
    IN ForLoop([s1 EXCEPT !.run[fileId] = [r EXCEPT !.pc = "loop", !.done = done,
                                                    !.batch = << >>, !.chars = 0,
                                                    !.text = << >>, !.i = r.i + 1]],
               J, fileId)
  : s \in {s0}})

\* geminiService.translateTextSegment, given what the remote model answers
translateTextSegment(text, remote) ==
  IF IsBlank(text) THEN text
  ELSE IF Trim(remote) # << >> THEN Trim(remote) ELSE text

ZipPartNoFallback(parts, k, original) ==
  IF k <= Len(parts) THEN Trim(parts[k]) ELSE << >>

\* translated text of the batch's segment number k (from 1)
ZipPart(parts, k, original) ==
  LET trans == IF k <= Len(parts) /\ parts[k] # << >> THEN Trim(parts[k]) ELSE << >>
  IN IF trans # << >> THEN trans ELSE original

RECURSIVE WriteBack(_, _, _, _)
WriteBack(s0, fileId, parts, k) ==
  Only({
    LET r == s.run[fileId]
    IN IF k > Len(r.batch) THEN s
       ELSE LET pos == r.batch[k]
                seg == s.obj[fileId].segments[pos]
                tr == ZipPart(parts, k, seg.original)
                s1 == [s EXCEPT !.obj[fileId].segments[pos].translated = tr,
                                !.obj[fileId].segments[pos].status = "completed"]
            IN WriteBack(broadcast(s1, Msg("SEGMENT_TRANSLATION", fileId, seg.index,
                                           [translated |-> tr, original |-> seg.original,
                                            status |-> ""])),
                         fileId, parts, k + 1)
  : s \in {s0}})

RECURSIVE MarkWarningRetry(_, _, _)
MarkWarningRetry(s0, fileId, k) ==
  Only({
    LET r == s.run[fileId]
    IN IF k > Len(r.batch) THEN s
       ELSE LET pos == r.batch[k]
                seg == s.obj[fileId].segments[pos]
                s1 == [s EXCEPT !.obj[fileId].segments[pos].status = "pending"]
            IN MarkWarningRetry(broadcast(s1, Msg("SEGMENT_WARNING", fileId, seg.index,
                                                  [message |-> <<"f", "a", "i", "l">>])),
                                fileId, k + 1)
  : s \in {s0}})

MarkWarningLast(s0, fileId, k) ==
  Only({
    LET r == s.run[fileId]
        pos == r.batch[Len(r.batch)]
        seg == s.obj[fileId].segments[pos]
        s1 == [s EXCEPT !.obj[fileId].segments[pos].status = "warning",
                        !.obj[fileId].segments[pos].warningMessage = <<"f", "a", "i", "l">>]
    IN broadcast(s1, Msg("SEGMENT_WARNING", fileId, seg.index,
                         [message |-> <<"f", "a", "i", "l">>]))
  : s \in {s0}})

RECURSIVE MarkWarning(_, _, _)
MarkWarning(s0, fileId, k) ==
  Only({
    LET r == s.run[fileId]
    IN IF k > Len(r.batch) THEN s
       ELSE LET pos == r.batch[k]
                seg == s.obj[fileId].segments[pos]
                s1 == [s EXCEPT !.obj[fileId].segments[pos].status = "warning",
                                !.obj[fileId].segments[pos].warningMessage = <<"f", "a", "i", "l">>]
            IN MarkWarning(broadcast(s1, Msg("SEGMENT_WARNING", fileId, seg.index,
                                             [message |-> <<"f", "a", "i", "l">>])),
                           fileId, k + 1)
  : s \in {s0}})

\* ----------------------------------------------------- translation client
MAX_RETRIES == 5

NoCall ==
  [pc |-> "idle", text |-> << >>, attempt |-> 0, requests |-> 0, wait |-> 0,
   delays |-> << >>, last |-> [status |-> 0, message |-> << >>], result |-> << >>]

NoDownload ==
  [pc |-> "idle", fileId |-> 0, handed |-> << >>, map |-> << >>, result |-> "none",
   cause |-> "none"]

NoBus == [listeners |-> << >>, timers |-> 0, msg |-> "none", delivered |-> << >>]

NoParagraph == [runs |-> << >>, map |-> << >>, out |-> << >>, dominant |-> 0]

\* ---------------------------------------------------------------- actions
Init ==
  /\ jobs = {}
  /\ fileStorage = {}
  /\ obj = [j \in Ids |-> NoJob]
  /\ fileQueue = << >>
  /\ isProcessingFile = FALSE
  /\ run = [j \in Ids |-> NoRun]
  /\ uploading = {}
  /\ nextId = 1
  /\ emitted = << >>
  /\ accepted = << >>
  /\ started = << >>
  /\ finished = << >>
  /\ calls = [j \in Ids |-> << >>]
  /\ lastProgress = [j \in Ids |-> 0]
  /\ client = NoCall
  /\ download = NoDownload
  /\ docx = NoParagraph
  /\ bus = NoBus

\* uploadFile up to the await of parseFileToHtml
uploadFile(fileId, file) ==
  /\ fileId = nextId
  /\ nextId' = nextId + 1
  /\ fileStorage' = fileStorage \cup {fileId}
  /\ uploading' = uploading \cup {[id |-> fileId, file |-> file]}
  /\ emitted' = << >>
  /\ UNCHANGED <<jobs, obj, fileQueue, isProcessingFile, run, accepted, started,
                 finished, calls, lastProgress>>
  /\ UNCHANGED outside

\* the rest of uploadFile, once the file is parsed
uploadParsed(u) ==
  /\ u \in uploading
  /\ uploading' = uploading \ {u}
  /\ jobs' = jobs \cup {u.id}
  /\ obj' = [obj EXCEPT ![u.id] = NewJob(u.file, u.id)]
  /\ emitted' = <<Msg("FILE_READY", u.id, -1, [job |-> NewJob(u.file, u.id)])>>
  /\ UNCHANGED <<fileStorage, fileQueue, isProcessingFile, run, nextId, accepted,
                 started, finished, calls, lastProgress>>
  /\ UNCHANGED outside

\* the ranges handleStartOne passes on: none, or one inside the page count
ValidRanges(job) ==
  {NoRange} \cup
  {r \in [start : 1..job.pageCount, end : 1..job.pageCount] : r.start <= r.end}

AcceptsKnown(fileId) == fileId \in jobs

Accepts(fileId) == fileId \in jobs /\ obj[fileId].status = "idle"

startProcessing(fileId, range) ==
  /\ fileId \in jobs => range \in ValidRanges(obj[fileId])
  /\ fileId \notin jobs => range = NoRange
  /\ IF ~Accepts(fileId)
     THEN /\ emitted' = << >>
          /\ UNCHANGED <<obj, fileQueue, isProcessingFile, run, accepted, started,
                         finished, calls, lastProgress>>
     ELSE LET s1 == [Cur EXCEPT !.obj[fileId].status = "queued",
                               !.obj[fileId].selectedRange =
                                  IF range # NoRange THEN range ELSE @]
              s2 == FileProgress(s1, fileId, 0, "queued", range)
              s3 == [s2 EXCEPT !.fileQueue = Append(@, fileId)]
          IN /\ \E s \in {processQueue(s3, jobs)} : Commit(s)
             /\ accepted' = Append(accepted, fileId)
  /\ UNCHANGED <<jobs, fileStorage, uploading, nextId>>
  /\ UNCHANGED outside

deleteFileKeepQueue(fileId) ==
  /\ jobs' = jobs \ {fileId}
  /\ fileStorage' = fileStorage \ {fileId}
  /\ emitted' = << >>
  /\ obj' = Reachable(obj, jobs', run, NoJob)
  /\ calls' = Reachable(calls, jobs', run, << >>)
  /\ lastProgress' = Reachable(lastProgress, jobs', run, 0)
  /\ UNCHANGED <<fileQueue, isProcessingFile, run, uploading, nextId, accepted, started,
                 finished>>
  /\ UNCHANGED outside

deleteFileKeepBytes(fileId) ==
  /\ jobs' = jobs \ {fileId}
  /\ fileQueue' = SelectSeq(fileQueue, LAMBDA id : id # fileId)
  /\ emitted' = << >>
  /\ obj' = Reachable(obj, jobs', run, NoJob)
  /\ calls' = Reachable(calls, jobs', run, << >>)
  /\ lastProgress' = Reachable(lastProgress, jobs', run, 0)
  /\ UNCHANGED <<fileStorage, isProcessingFile, run, uploading, nextId, accepted, started,
                 finished>>
  /\ UNCHANGED outside

deleteFile(fileId) ==
  /\ jobs' = jobs \ {fileId}
  /\ fileStorage' = fileStorage \ {fileId}
  /\ fileQueue' = SelectSeq(fileQueue, LAMBDA id : id # fileId)
  /\ emitted' = << >>
  /\ obj' = Reachable(obj, jobs', run, NoJob)
  /\ calls' = Reachable(calls, jobs', run, << >>)
  /\ lastProgress' = Reachable(lastProgress, jobs', run, 0)
  /\ UNCHANGED <<isProcessingFile, run, uploading, nextId, accepted, started, finished>>
  /\ UNCHANGED outside

clearAll ==
  /\ jobs' = {}
  /\ fileStorage' = {}
  /\ fileQueue' = << >>
  /\ emitted' = << >>
  /\ obj' = Reachable(obj, jobs', run, NoJob)
  /\ calls' = Reachable(calls, jobs', run, << >>)
  /\ lastProgress' = Reachable(lastProgress, jobs', run, 0)
  /\ UNCHANGED <<isProcessingFile, run, uploading, nextId, accepted, started, finished>>
  /\ UNCHANGED outside

\* the rate-limiting timer of a flush fires and the client is called
timerFires(fileId) ==
  /\ run[fileId].pc = "sleep"
  /\ run' = [run EXCEPT ![fileId].pc = "call"]
  /\ calls' = [calls EXCEPT ![fileId] =
                 Append(@, [batch |-> run[fileId].batch, text |-> run[fileId].text,
                            parts |-> << >>, remote |-> << >>, result |-> "pending"])]
  /\ emitted' = << >>
  /\ UNCHANGED <<jobs, fileStorage, obj, fileQueue, isProcessingFile, uploading,
                 nextId, accepted, started, finished, lastProgress>>
  /\ UNCHANGED outside

SetLast(cs, parts, remote, result) ==
  [cs EXCEPT ![Len(cs)].parts = parts, ![Len(cs)].remote = remote,
             ![Len(cs)].result = result]

\* the remote model answers the parts rparts joined by sep, padded by pad
clientReturns(fileId, rparts, sep, pad) ==
  /\ run[fileId].pc = "call"
  /\ \E remote \in {pad \o Join(rparts, sep) \o pad} :
     \E translatedBlock \in {translateTextSegment(run[fileId].text, remote)} :
     \E translatedParts \in {Split(translatedBlock)} :
     \E s1 \in {[Cur EXCEPT !.calls[fileId] = SetLast(@, rparts, remote, "ok")]} :
     \E s \in {AfterBatch(WriteBack(s1, fileId, translatedParts, 1), jobs, fileId)} :
       Commit(s)
  /\ UNCHANGED <<jobs, fileStorage, uploading, nextId, accepted>>
  /\ UNCHANGED outside

\* the client call throws
clientFails(fileId) ==
  /\ run[fileId].pc = "call"
  /\ LET s1 == [Cur EXCEPT !.calls[fileId] = SetLast(@, << >>, << >>, "failed")]
     IN \E s \in {AfterBatch(MarkWarning(s1, fileId, 1), jobs, fileId)} : Commit(s)
  /\ UNCHANGED <<jobs, fileStorage, uploading, nextId, accepted>>
  /\ UNCHANGED outside

resumeNoRequeue(fileId) ==
  /\ run[fileId].pc = "resume"
  /\ \E s \in {[Cur EXCEPT !.isProcessingFile = FALSE, !.run[fileId] = NoRun]} : Commit(s)
  /\ UNCHANGED <<jobs, fileStorage, uploading, nextId, accepted>>
  /\ UNCHANGED outside

\* processQueue after its await of processFile
resume(fileId) ==
  /\ run[fileId].pc = "resume"
  /\ LET s1 == [Cur EXCEPT !.isProcessingFile = FALSE, !.run[fileId] = NoRun]
     IN \E s \in {IF s1.fileQueue # << >> THEN processQueue(s1, jobs) ELSE s1} : Commit(s)
  /\ UNCHANGED <<jobs, fileStorage, uploading, nextId, accepted>>
  /\ UNCHANGED outside

\* ------------------------------------- translateTextSegment, step by step
\* String.prototype.includes
Includes(t, pat) ==
  \E k \in 1..(Len(t) - Len(pat) + 1) : SubSeq(t, k, k + Len(pat) - 1) = pat

P429 == <<"4", "2", "9">>

P503 == <<"5", "0", "3">>

PQuota == <<"q", "u", "o", "t", "a">>

PExhausted ==
  <<"R", "E", "S", "O", "U", "R", "C", "E", "_", "E", "X", "H", "A", "U", "S", "T", "E", "D">>

\* an error is [status, message]: status is what line 49 reads (0: none)
Stringify(error) ==
  IF error.status = 0 THEN <<"{", "}">> ELSE <<"{">> \o Decimal(error.status) \o <<"}">>

errorMessage(error) == IF error.message # << >> THEN error.message ELSE Stringify(error)

isRateLimit(error) ==
  \/ error.status = 429
  \/ Includes(errorMessage(error), P429)
  \/ Includes(errorMessage(error), PQuota)
  \/ Includes(errorMessage(error), PExhausted)

isServerOverload(error) == error.status = 503 \/ Includes(errorMessage(error), P503)

backoffTimeLinear(attempt, jitter) == 10000 * (attempt + 1) + jitter

\* milliseconds; jitter is Math.random() * 2000
backoffTime(attempt, jitter) == 10000 * 2 ^ attempt + jitter

\* the entry of translateTextSegment, up to the first request
translateCall(text) ==
  /\ client.pc = "idle"
  /\ client' = IF IsBlank(text)
               THEN [NoCall EXCEPT !.pc = "returned", !.text = text, !.result = text]
               ELSE [NoCall EXCEPT !.pc = "request", !.text = text]
  /\ UNCHANGED <<backend, download, docx, bus>>

\* generateContent resolves
remoteAnswers(remote) ==
  /\ client.pc = "request"
  /\ client' = [client EXCEPT !.pc = "returned", !.requests = @ + 1,
                              !.result = translateTextSegment(client.text, remote)]
  /\ UNCHANGED <<backend, download, docx, bus>>

\* generateContent rejects
remoteThrows(error, jitter) ==
  /\ client.pc = "request"
  /\ client' =
       IF (isRateLimit(error) \/ isServerOverload(error)) /\ client.attempt < MAX_RETRIES - 1
       THEN [client EXCEPT !.pc = "backoff", !.requests = @ + 1, !.last = error,
                           !.wait = backoffTime(client.attempt, jitter)]
       ELSE [client EXCEPT !.pc = "thrown", !.requests = @ + 1, !.last = error]
  /\ UNCHANGED <<backend, download, docx, bus>>

\* the timer of delay(backoffTime) fires
delayEnds ==
  /\ client.pc = "backoff"
  /\ client' = [client EXCEPT !.pc = "request", !.attempt = @ + 1, !.wait = 0,
                              !.delays = Append(@, client.wait)]
  /\ UNCHANGED <<backend, download, docx, bus>>

\* ------------------------------------------------------- generateDownload
\* the segments handed to reassembleFile, named by their index
indexes(segments) == [k \in DOMAIN segments |-> segments[k].index]

segmentsToDownloadBuffered(job) ==
  IF HasRange(job)
  THEN SelectSeq(job.segments,
                 LAMBDA seg : \/ seg.pageNumber = 0
                              \/ /\ seg.pageNumber >= bufferStart(job)
                                 /\ seg.pageNumber <= bufferEnd(job))
  ELSE job.segments

\* the segments of the download: inside the selected range, or without a page
segmentsToDownload(job) ==
  IF HasRange(job)
  THEN SelectSeq(job.segments,
                 LAMBDA seg : \/ seg.pageNumber = 0
                              \/ /\ seg.pageNumber >= job.selectedRange.start
                                 /\ seg.pageNumber <= job.selectedRange.end)
  ELSE job.segments

\* trimmed original -> translated, a later segment replacing an earlier one
translationMap(segments) ==
  LET keep == SelectSeq(segments, LAMBDA seg : seg.translated # << >> /\ seg.original # << >>)
      last(key) == CHOOSE k \in DOMAIN keep :
                     /\ Trim(keep[k].original) = key
                     /\ \A m \in DOMAIN keep : Trim(keep[m].original) = key => m <= k
  IN [key \in {Trim(keep[k].original) : k \in DOMAIN keep} |-> keep[last(key)].translated]

generateDownloadInPlace(fileId) ==
  /\ download.pc # "reassembling"
  /\ emitted' = << >>
  /\ IF fileId \notin jobs \/ fileId \notin fileStorage
     THEN /\ download' = [NoDownload EXCEPT !.pc = "done", !.fileId = fileId,
                                            !.result = "null", !.cause = "missing"]
          /\ obj' = obj
     ELSE /\ download' = [NoDownload EXCEPT !.pc = "reassembling", !.fileId = fileId,
                                            !.handed = indexes(segmentsToDownload(obj[fileId])),
                                            !.map = translationMap(segmentsToDownload(obj[fileId]))]
          /\ obj' = [obj EXCEPT ![fileId].segments = segmentsToDownload(obj[fileId])]
  /\ UNCHANGED <<jobs, fileStorage, fileQueue, isProcessingFile, run, uploading, nextId,
                 accepted, started, finished, calls, lastProgress, client, docx,
                 bus>>

\* generateDownload up to the first await inside reassembleFile
generateDownload(fileId) ==
  /\ download.pc # "reassembling"
  /\ emitted' = << >>
  /\ download' =
       IF fileId \notin jobs \/ fileId \notin fileStorage
       THEN [NoDownload EXCEPT !.pc = "done", !.fileId = fileId,
                               !.result = "null", !.cause = "missing"]
       ELSE [NoDownload EXCEPT !.pc = "reassembling", !.fileId = fileId,
                               !.handed = indexes(segmentsToDownload(obj[fileId])),
                               !.map = translationMap(segmentsToDownload(obj[fileId]))]
  /\ UNCHANGED <<jobs, fileStorage, obj, fileQueue, isProcessingFile, run, uploading,
                 nextId, accepted, started, finished, calls, lastProgress, client, docx,
                 bus>>

\* the reassembler returns the blob, or throws and the catch returns null
reassembled(throws) ==
  /\ download.pc = "reassembling"
  /\ emitted' = << >>
  /\ download' = [download EXCEPT !.pc = "done",
                                  !.result = IF throws THEN "null" ELSE "blob",
                                  !.cause = IF throws THEN "throws" ELSE "none"]
  /\ UNCHANGED <<jobs, fileStorage, obj, fileQueue, isProcessingFile, run, uploading,
                 nextId, accepted, started, finished, calls, lastProgress, client, docx,
                 bus>>

\* --------------------------------------------------------- reassembleDocx
\* /[^\s_]/ : some character is neither white space nor an underscore
hasMeaningfulContentAll(text) ==
  text # << >> /\ \A k \in DOMAIN text : ~IsSpace(text[k]) /\ text[k] # "_"

hasMeaningfulContent(text) ==
  \E k \in DOMAIN text : ~IsSpace(text[k]) /\ text[k] # "_"

\* pass 1: a text node whose trimmed text is a key takes the translation
pass1(runs, map) ==
  [k \in DOMAIN runs |->
     IF Trim(runs[k]) # << >> /\ Trim(runs[k]) \in DOMAIN map
     THEN [text |-> map[Trim(runs[k])], translated |-> TRUE]
     ELSE [text |-> runs[k], translated |-> FALSE]]

\* the text nodes of the paragraph that pass 1 left alone, as positions
runNodes(nodes) ==
  SelectSeq([k \in DOMAIN nodes |-> k], LAMBDA k : ~nodes[k].translated)

dominantNodeLast(nodes, candidateNodes) ==
  LET p == CHOOSE p \in DOMAIN candidateNodes :
             \A q \in DOMAIN candidateNodes :
               \/ StrLen(nodes[candidateNodes[q]].text) < StrLen(nodes[candidateNodes[p]].text)
               \/ /\ StrLen(nodes[candidateNodes[q]].text) = StrLen(nodes[candidateNodes[p]].text)
                  /\ p >= q
  IN candidateNodes[p]

\* the first candidate of the greatest length
dominantNode(nodes, candidateNodes) ==
  LET p == CHOOSE p \in DOMAIN candidateNodes :
             \A q \in DOMAIN candidateNodes :
               \/ StrLen(nodes[candidateNodes[q]].text) < StrLen(nodes[candidateNodes[p]].text)
               \/ /\ StrLen(nodes[candidateNodes[q]].text) = StrLen(nodes[candidateNodes[p]].text)
                  /\ p <= q
  IN candidateNodes[p]

\* pass 2: the runs of a paragraph whose joined text is a key
pass2(nodes, map) ==
  LET rn == runNodes(nodes)
      trimmedFull == Trim(Flatten([k \in DOMAIN rn |-> nodes[rn[k]].text]))
  IN IF Len(rn) <= 1 \/ trimmedFull \notin DOMAIN map
     THEN [nodes |-> nodes, dominant |-> 0]
     ELSE LET contentNodes == SelectSeq(rn, LAMBDA k : hasMeaningfulContent(nodes[k].text))
              candidateNodes == IF Len(contentNodes) > 0 THEN contentNodes ELSE rn
              d == dominantNode(nodes, candidateNodes)
          IN [nodes |-> [k \in DOMAIN nodes |->
                           IF k = d THEN [text |-> map[trimmedFull], translated |-> TRUE]
                           ELSE IF k \in {rn[i] : i \in DOMAIN rn}
                                THEN [text |-> << >>, translated |-> TRUE]
                                ELSE nodes[k]],
              dominant |-> d]

\* one paragraph of word/document.xml through both passes
reassembleDocx(runs, map) ==
  /\ \E r \in {pass2(pass1(runs, map), map)} :
       docx' = [runs |-> runs, map |-> map,
                out |-> [k \in DOMAIN runs |-> r.nodes[k].text],
                dominant |-> r.dominant]
  /\ UNCHANGED <<backend, client, download, bus>>

\* ---------------------------------------------------------- the event bus
\* An observer is "plain", or "adder": one whose callback registers a further
\* plain observer with connect, while there is room for one.
MaxListeners == 4

\* Array.prototype.forEach on the listeners, from element i on: the number
\* of elements to visit is read once, before the first callback, and the
\* callbacks run one after the other on the array as it then is
RECURSIVE forEachLive(_, _, _)
forEachLive(b, len, i) ==
  IF i >= Len(b.listeners) THEN b
  ELSE LET called == [b EXCEPT !.delivered = Append(@, i + 1)]
           after == IF b.listeners[i + 1] = "adder" /\ Len(b.listeners) < MaxListeners
                    THEN [called EXCEPT !.listeners = Append(@, "plain"), !.timers = @ + 1]
                    ELSE called
       IN forEachLive(after, len, i + 1)

RECURSIVE forEach(_, _, _)
forEach(b, len, i) ==
  IF i >= len THEN b
  ELSE LET called == [b EXCEPT !.delivered = Append(@, i + 1)]
           after == IF b.listeners[i + 1] = "adder" /\ Len(b.listeners) < MaxListeners
                    THEN [called EXCEPT !.listeners = Append(@, "plain"), !.timers = @ + 1]
                    ELSE called
       IN forEach(after, len, i + 1)

\* connect called by the application, between two tasks
connect(kind) ==
  /\ Len(bus.listeners) < MaxListeners
  /\ bus' = [bus EXCEPT !.listeners = Append(@, kind), !.timers = @ + 1,
                        !.msg = "none", !.delivered = << >>]
  /\ UNCHANGED <<backend, client, download, docx>>

\* the timer of a connect fires and BATCH_INIT is broadcast
batchInit ==
  /\ bus.timers > 0
  /\ bus' = forEach([bus EXCEPT !.timers = @ - 1, !.msg = "BATCH_INIT", !.delivered = << >>],
                    Len(bus.listeners), 0)
  /\ UNCHANGED <<backend, client, download, docx>>

\* a broadcast of the backend
busBroadcast(type) ==
  /\ bus' = forEach([bus EXCEPT !.msg = type, !.delivered = << >>], Len(bus.listeners), 0)
  /\ UNCHANGED <<backend, client, download, docx>>

\* ------------------------------------------------------------- the inputs
A == <<"a">>

X1 == <<"X">>

File(ext, body) == [ext |-> ext, body |-> body]

\* files of the scheduler specification: no text, and two batches
PlainFiles == {File("docx", <<paras>>) : paras \in {<< >>, <<X1, X1, A>>}}

T(k) == <<"t">> \o Decimal(k)

FullAnswer(n) == [k \in 1..n |-> T(k)]

SchedIds == 1..MaxJobs

Next ==
  \/ \E fileId \in SchedIds, file \in PlainFiles : uploadFile(fileId, file)
  \/ \E u \in uploading : uploadParsed(u)
  \/ \E fileId \in SchedIds, range \in {NoRange} : startProcessing(fileId, range)
  \/ \E fileId \in SchedIds : deleteFile(fileId)
  \/ clearAll
  \/ \E fileId \in SchedIds : timerFires(fileId)
  \/ \E fileId \in SchedIds :
       \E rparts \in {FullAnswer(Len(run[fileId].batch))} :
         clientReturns(fileId, rparts, DELIMITER, << >>)
  \/ \E fileId \in SchedIds : clientFails(fileId)
  \/ \E fileId \in SchedIds : resume(fileId)

Spec == Init /\ [][Next]_vars

\* the event loop runs every due timer and every continuation, and every call
\* of the translation client returns or throws
Fairness ==
  /\ WF_vars(\E fileId \in SchedIds : timerFires(fileId))
  /\ WF_vars(\E fileId \in SchedIds :
               \/ \E rparts \in {FullAnswer(Len(run[fileId].batch))} :
                    clientReturns(fileId, rparts, DELIMITER, << >>)
               \/ clientFails(fileId))
  /\ WF_vars(\E fileId \in SchedIds : resume(fileId))

FairSpec == Spec /\ Fairness

\* --------------------------------- the queue, with one Job more and one file
SlimFiles == {File("docx", <<<<A>>>>)}

NextFifo ==
  \/ \E fileId \in Ids, file \in SlimFiles : uploadFile(fileId, file)
  \/ \E u \in uploading : uploadParsed(u)
  \/ \E fileId \in Ids : startProcessing(fileId, NoRange)
  \/ \E fileId \in Ids : deleteFile(fileId)
  \/ \E fileId \in Ids : timerFires(fileId)
  \/ \E fileId \in Ids :
       \E rparts \in {FullAnswer(Len(run[fileId].batch))} :
         clientReturns(fileId, rparts, DELIMITER, << >>)
  \/ \E fileId \in Ids : resume(fileId)

SpecFifo == Init /\ [][NextFifo]_vars

\* ------------------------------------------ one Job, files of every format
ParaTexts == {<<"a">>, <<" ", "a", " ">>, <<" ">>, <<"X">>}

SeqsUpTo(S, n) == UNION {[1..m -> S] : m \in 0..n}

FlatFiles == {File("docx", <<paras>>) : paras \in SeqsUpTo(ParaTexts, MaxSegs)}

PagedFiles ==
  {File(ext, [i \in 1..p |-> paras]) :
     ext \in {"pdf", "pptx"}, p \in 1..MaxPage, paras \in {<< >>, <<A>>}}

RichFiles == FlatFiles \cup PagedFiles \cup {File("bad", << >>)}

AllRanges == {NoRange} \cup {r \in [start : 1..MaxPage, end : 1..MaxPage] : r.start <= r.end}

\* answers of the remote model to a batch of n segments: up to n parts, at
\* most one of them empty
Translations(n) ==
  {[k \in 1..m |-> IF k = e THEN << >> ELSE T(k)] : m \in 1..n, e \in 0..n}

BatchOriginals(fileId) ==
  [k \in 1..Len(run[fileId].batch) |->
     obj[fileId].segments[run[fileId].batch[k]].original]

Answers(fileId) == {BatchOriginals(fileId)} \cup Translations(Len(run[fileId].batch))

\* the delimiter as sent, and a reply that drops the blanks around it and
\* pads the whole answer
Forms == {[sep |-> DELIMITER, pad |-> << >>], [sep |-> <<"|", "|", "|">>, pad |-> <<" ">>]}

NextDoc ==
  \/ \E file \in RichFiles : uploadFile(1, file)
  \/ \E u \in uploading : uploadParsed(u)
  \/ \E range \in AllRanges : startProcessing(1, range)
  \/ deleteFile(1)
  \/ timerFires(1)
  \/ \E rparts \in Answers(1), form \in Forms : clientReturns(1, rparts, form.sep, form.pad)
  \/ clientFails(1)
  \/ resume(1)

SpecDoc == Init /\ [][NextDoc]_vars

\* ----------------------------------------------- one call of the client
CallTexts == {<< >>, <<" ">>, A}

Remotes == {<< >>, <<" ">>, <<"t">>, <<" ", "t", " ">>}

Errors ==
  {[status |-> 429, message |-> <<"x">>],
   [status |-> 0, message |-> <<"n", "o", " ">> \o PQuota],
   [status |-> 0, message |-> PExhausted],
   [status |-> 503, message |-> << >>],
   [status |-> 0, message |-> <<"e">> \o P503],
   [status |-> 400, message |-> <<"b", "a", "d">>],
   [status |-> 400, message |-> <<"1">> \o P429 \o <<"0">>],
   [status |-> 0, message |-> << >>]}

Jitters == {0, 1, 1999}

NextClient ==
  \/ \E text \in CallTexts : translateCall(text)
  \/ \E remote \in Remotes : remoteAnswers(remote)
  \/ \E error \in Errors, jitter \in Jitters : remoteThrows(error, jitter)
  \/ delayEnds

SpecClient == Init /\ [][NextClient]_vars

\* ------------------------------------------------ one Job and its download
DownloadFiles ==
  {File("docx", <<<<A, A>>>>), File("pdf", <<<<A>>, <<A>>>>), File("pptx", <<<<A>>>>),
   File("bad", << >>)}

DownloadRanges == {NoRange, [start |-> 1, end |-> 1]}

NextDownload ==
  \/ \E file \in DownloadFiles : uploadFile(1, file)
  \/ \E u \in uploading : uploadParsed(u)
  \/ \E range \in DownloadRanges : startProcessing(1, range)
  \/ deleteFile(1)
  \/ timerFires(1)
  \/ \E rparts \in Answers(1) : clientReturns(1, rparts, DELIMITER, << >>)
  \/ clientFails(1)
  \/ resume(1)
  \/ \E fileId \in {1, 2} : generateDownload(fileId)
  \/ \E throws \in BOOLEAN : reassembled(throws)

SpecDownload == Init /\ [][NextDownload]_vars

\* ------------------------------------------------ one paragraph of a docx
MaxRuns == 3

HelloRun == <<"H", "e", "l", "l", "o", " ">>

WorldRun == <<"w", "o", "r", "l", "d">>

BangRun == <<"!", "!", "!">>

RunTexts == {HelloRun, WorldRun, BangRun, <<"_", "_", "_", "_", "_", "_", "_">>, <<" ">>}

Paragraphs == UNION {[1..n -> RunTexts] : n \in 1..MaxRuns}

\* lookup maps: empty, the joined paragraph, and also its first run alone
\* (a key is the trimmed original of a segment, which is never blank)
Maps(runs) ==
  {<< >>,
   [key \in {Trim(Flatten(runs))} \ {<< >>} |-> <<"t">>],
   [key \in {Trim(Flatten(runs)), Trim(runs[1])} \ {<< >>} |-> <<"t">>]}

\* the paragraphs of a document are handled one by one, each on its own
NextDocx ==
  /\ docx = NoParagraph
  /\ \E runs \in Paragraphs : \E map \in Maps(runs) : reassembleDocx(runs, map)

SpecDocx == Init /\ [][NextDocx]_vars

\* ------------------------------------------------ the observers of the bus
Observers == {"plain", "adder"}

BusMessages == {"FILE_READY", "FILE_PROGRESS"}

NextBus ==
  \/ \E kind \in Observers : connect(kind)
  \/ batchInit
  \/ \E type \in BusMessages : busBroadcast(type)

SpecBus == Init /\ [][NextBus]_vars

\* ================================================================ claims
Active(j) == run[j].pc # "none"

Running(j) == run[j].pc \in {"sleep", "call"}

SeqRange(q) == {q[k] : k \in 1..Len(q)}

IndexOf(q, x) == CHOOSE k \in 1..Len(q) : q[k] = x

Before(q, a, b) == a \in SeqRange(q) /\ (b \in SeqRange(q) => IndexOf(q, a) < IndexOf(q, b))

C1_OneActive ==
  /\ Cardinality({j \in Ids : Active(j)}) <= 1
  /\ isProcessingFile <=> \E j \in Ids : Active(j)

C1_Step ==
  \A j \in Ids :
    /\ (accepted' = Append(accepted, j) /\ \E k \in Ids : Active(k)) =>
         /\ fileQueue' = Append(fileQueue, j)
         /\ run' = run
         /\ obj' = [obj EXCEPT ![j].status = "queued"]
    /\ (j \in jobs /\ j \in jobs' /\ obj'[j].segments # obj[j].segments) =>
         \A k \in Ids \ {j} : ~Running(k) /\ ~Active(k)'

\* C1: at most one Job run is active at any time; a startProcessing accepted
\* while a run is active only appends the Job to the queue; and a Job's
\* segments change only when no other Job's run is under way.
C1_SingleActiveRun == []C1_OneActive /\ [][C1_Step]_vars

C1_Witness ==
  \E j \in Ids, k \in Ids :
    /\ run[j].pc = "call"
    /\ fileQueue = <<k>>
    /\ obj[k].status = "queued"
    /\ emitted # << >> /\ emitted[1].payload.status = "queued"

\* C2: Jobs are served first in, first out: of two Jobs in the store, the one
\* accepted first became processing first and had its FILE_COMPLETE first.
C2_Fifo ==
  \A a \in jobs, b \in jobs :
    (a # b /\ a \in SeqRange(accepted) /\ Before(accepted, a, b)) =>
      /\ b \in SeqRange(started) => Before(started, a, b)
      /\ b \in SeqRange(finished) => Before(finished, a, b)

C2_Witness ==
  \E a \in jobs, b \in jobs, c \in jobs :
    /\ accepted = <<a, b, c>>
    /\ started = <<a, b>>
    /\ finished = <<a>>
    /\ fileQueue = <<c>>
    /\ Running(b)

\* C3: every accepted Job that is not deleted is eventually completed, every
\* queued Job is eventually taken from the queue, and the processing flag is
\* eventually released.
C3_EventuallyCompleted ==
  /\ \A j \in Ids :
       (j \in SeqRange(accepted)) ~> (j \notin jobs \/ obj[j].status = "completed")
  /\ \A j \in Ids :
       (j \in SeqRange(fileQueue)) ~> (j \notin jobs \/ j \in SeqRange(started))
  /\ isProcessingFile ~> ~isProcessingFile

C3_Witness ==
  \E j \in jobs, k \in jobs :
    /\ j # k
    /\ obj[j].status = "completed"
    /\ \E c \in SeqRange(calls[j]) : c.result = "failed"
    /\ \E c \in SeqRange(calls[j]) : c.result = "ok"
    /\ Before(finished, j, k)
    /\ obj[k].status = "completed"
    /\ ~isProcessingFile

SegRank(status) ==
  CASE status = "pending" -> 0
    [] status = "translating" -> 1
    [] OTHER -> 2

C4_Step ==
  \A j \in Ids :
    \A k \in (DOMAIN obj[j].segments) \cap (DOMAIN obj'[j].segments) :
      /\ SegRank(obj'[j].segments[k].status) >= SegRank(obj[j].segments[k].status)
      /\ obj[j].segments[k].status \in {"completed", "warning"} =>
           obj'[j].segments[k].status = obj[j].segments[k].status

\* C4: the status of a segment only moves forward through pending,
\* translating, then completed or warning: no step takes it back, and a
\* completed or warning segment keeps its status.
C4_StatusForward == [][C4_Step]_vars

C4_Witness ==
  \E j \in Ids :
    /\ run[j].pc = "sleep"
    /\ \E k \in DOMAIN obj[j].segments : obj[j].segments[k].status = "warning"
    /\ \E k \in DOMAIN obj[j].segments : obj[j].segments[k].status = "translating"

ProgressSent(msgs, j) ==
  SelectSeq(msgs, LAMBDA m : m.type = "FILE_PROGRESS" /\ m.fileId = j)

C5_Step ==
  \A j \in Ids :
    LET sent == ProgressSent(emitted', j)
    IN /\ (obj[j].status = "processing" /\ obj'[j].status = "processing") =>
            obj'[j].progress >= obj[j].progress
       /\ obj[j].status = "processing" =>
            \A n \in 1..Len(sent) :
              sent[n].payload.progress >=
                (IF n = 1 THEN lastProgress[j] ELSE sent[n - 1].payload.progress)
       /\ (obj[j].status # "completed" /\ obj'[j].status = "completed") =>
            obj'[j].progress = 100

\* C5: while a Job is processing, its progress and the progress values of
\* its FILE_PROGRESS events never decrease, and its progress is 100 in the
\* step in which its status becomes completed.
C5_ProgressMonotone == [][C5_Step]_vars

C5_Witness ==
  \E j \in Ids :
    /\ obj[j].status = "completed" /\ obj[j].progress = 100
    /\ Len(calls[j]) = 2
    /\ Len(ProgressSent(emitted, j)) = 1
    /\ ProgressSent(emitted, j)[1].payload.progress = 100

\* the positions of the segments the specification puts in scope
ScopeOf(job) ==
  IF job.selectedRange # NoRange /\ job.pageCount > 0
  THEN {k \in DOMAIN job.segments :
          \E p \in 1..job.pageCount :
            /\ p = job.segments[k].pageNumber
            /\ p >= job.selectedRange.start - 1
            /\ p <= job.selectedRange.end + 1}
  ELSE DOMAIN job.segments

\* the positions of the segments sent to the client or no longer pending
Touched(j) ==
  {k \in DOMAIN obj[j].segments : obj[j].segments[k].status # "pending"} \cup
  UNION {SeqRange(calls[j][c].batch) : c \in DOMAIN calls[j]}

\* C6: with a selected range and a page count, only the segments whose page
\* lies in [max(1, start - 1), min(pageCount, end + 1)] are sent to the client
\* or leave pending, and all of them have when the Job is completed; the other
\* segments stay pending and untranslated.  Without a range every segment is
\* in scope.
C6_RangeScope ==
  \A j \in Ids :
    /\ Touched(j) \subseteq ScopeOf(obj[j])
    /\ \A k \in (DOMAIN obj[j].segments) \ ScopeOf(obj[j]) :
         obj[j].segments[k].status = "pending" /\ obj[j].segments[k].translated = << >>
    /\ obj[j].status = "completed" => Touched(j) = ScopeOf(obj[j])

C6_Witness ==
  \E j \in Ids :
    LET job == obj[j]
    IN /\ job.status = "completed"
       /\ job.selectedRange # NoRange
       /\ \E k \in DOMAIN job.segments :
            /\ job.segments[k].pageNumber = job.selectedRange.start - 2
            /\ job.segments[k].status = "pending"
       /\ \E k \in DOMAIN job.segments :
            /\ job.segments[k].pageNumber = job.selectedRange.start - 1
            /\ job.segments[k].status = "completed"
       /\ \E k \in DOMAIN job.segments :
            /\ job.segments[k].pageNumber = job.selectedRange.end + 1
            /\ job.segments[k].status = "completed"
       /\ \E k \in DOMAIN job.segments :
            /\ job.segments[k].pageNumber = job.selectedRange.end + 2
            /\ job.segments[k].status = "pending"

Untouched(seg) == seg.status = "pending" /\ seg.translated = << >>

C7_Inv ==
  \A j \in Ids :
    (obj[j].status = "completed" /\ ScopeOf(obj[j]) = {}) =>
      /\ calls[j] = << >>
      /\ \A k \in DOMAIN obj[j].segments : Untouched(obj[j].segments[k])

C7_Step ==
  \A j \in Ids :
    (started' = Append(started, j) /\ ScopeOf(obj'[j]) = {}) =>
      /\ obj'[j].status = "completed"
      /\ obj'[j].progress = 100
      /\ \E n \in DOMAIN emitted' :
           emitted'[n].type = "FILE_COMPLETE" /\ emitted'[n].fileId = j
      /\ calls'[j] = << >>
      /\ obj'[j].segments = obj[j].segments
      /\ run'[j].pc = "resume"

\* C7: a Job whose scope is empty is completed with progress 100 and a
\* FILE_COMPLETE event in the step that starts processing it, with no call of
\* the translation client and no segment changed.
C7_EmptyScope == []C7_Inv /\ [][C7_Step]_vars

C7_Witness ==
  \E j \in Ids :
    /\ obj[j].status = "completed" /\ obj[j].progress = 100
    /\ obj[j].segments # << >>
    /\ ScopeOf(obj[j]) = {}
    /\ \E n \in DOMAIN emitted : emitted[n].type = "FILE_COMPLETE" /\ emitted[n].fileId = j

\* C8: after a call whose remote response is the text sent (the originals of
\* the batch joined by the delimiter), every segment of the batch has its
\* original as its translation.
C8_RoundTrip ==
  \A j \in Ids :
    \A c \in DOMAIN calls[j] :
      (calls[j][c].result = "ok" /\ calls[j][c].remote = calls[j][c].text) =>
        \A k \in SeqRange(calls[j][c].batch) :
          obj[j].segments[k].translated = obj[j].segments[k].original

\* what the segment number n of a call's batch is to get: its positional
\* part of the block the client returned (the text sent when the remote
\* answer is blank) if there is one and it is not empty, else its original
C9_Expected(call, n, original) ==
  IF Trim(call.remote) = << >> THEN Trim(original)
  ELSE IF n <= Len(call.parts) /\ call.parts[n] # << >> THEN Trim(call.parts[n])
  ELSE original

\* C9: after a call that returned, every segment of the batch is completed;
\* a segment whose positional part is missing or empty has its original as
\* its translation, the others have their part.
C9_PartFallback ==
  \A j \in Ids :
    \A c \in DOMAIN calls[j] :
      calls[j][c].result = "ok" =>
        \A n \in DOMAIN calls[j][c].batch :
          LET seg == obj[j].segments[calls[j][c].batch[n]]
          IN /\ seg.status = "completed"
             /\ seg.warningMessage = << >>
             /\ seg.translated = C9_Expected(calls[j][c], n, seg.original)

C9_Witness ==
  \E j \in Ids :
    \E c \in DOMAIN calls[j] :
      LET call == calls[j][c]
      IN /\ call.result = "ok"
         /\ Len(call.parts) < Len(call.batch)
         /\ \E n \in DOMAIN call.parts : call.parts[n] = << >>
         /\ \E n \in DOMAIN call.parts :
              /\ call.parts[n] # << >>
              /\ obj[j].segments[call.batch[n]].translated = call.parts[n]
         /\ \A n \in DOMAIN call.batch :
              obj[j].segments[call.batch[n]].status = "completed"

FailedPositions(j) ==
  UNION {SeqRange(calls[j][c].batch) : c \in {d \in DOMAIN calls[j] : calls[j][d].result = "failed"}}

C10_Inv ==
  \A j \in Ids :
    /\ \A k \in DOMAIN obj[j].segments :
         LET seg == obj[j].segments[k]
         IN /\ seg.status = "warning" <=> k \in FailedPositions(j)
            /\ seg.status = "warning" => seg.warningMessage # << >> /\ seg.translated = << >>
    /\ (j \in SeqRange(started) /\ run[j].pc \in {"none", "resume"} /\ obj[j].status # "none") =>
         obj[j].status = "completed"

C10_Step ==
  \A j \in Ids :
    LET n == Len(calls[j])
    IN (n > 0 /\ Len(calls'[j]) = n /\ calls[j][n].result = "pending"
          /\ calls'[j][n].result = "failed") =>
         LET batch == calls[j][n].batch
             rest == {k \in ScopeOf(obj[j]) : k > batch[Len(batch)]}
         IN IF rest = {}
            THEN obj'[j].status = "completed" /\ obj'[j].progress = 100
            ELSE /\ obj'[j].status = "processing"
                 /\ run'[j].pc = "sleep"
                 /\ run'[j].batch # << >>
                 /\ \A k \in rest : run'[j].batch[1] <= k

\* C10: when the client call of a batch fails, the segments of that batch,
\* and no others, are warning with a message and no translation; the run
\* goes on with the next batch, and ends with the Job completed.
C10_BatchFailure == []C10_Inv /\ [][C10_Step]_vars

C10_Witness ==
  \E j \in Ids :
    /\ obj[j].status = "completed"
    /\ Len(calls[j]) = 2
    /\ calls[j][1].result = "failed" /\ Len(calls[j][1].batch) = 2
    /\ calls[j][2].result = "ok"
    /\ \A k \in SeqRange(calls[j][1].batch) : obj[j].segments[k].status = "warning"
    /\ \A k \in SeqRange(calls[j][2].batch) : obj[j].segments[k].status = "completed"

\* throttling (HTTP 429 or a quota-exhausted signal) or overload (HTTP 503)
Throttled(error) ==
  \/ error.status \in {429, 503}
  \/ Includes(error.message, PQuota)
  \/ Includes(error.message, PExhausted)
  \/ error.status = 0 /\ (Includes(error.message, P429) \/ Includes(error.message, P503))

InBackoffWindow(ms, k) == ms >= 10000 * 2 ^ (k - 1) /\ ms < 10000 * 2 ^ (k - 1) + 2000

C11_Inv ==
  /\ client.requests <= 5
  /\ \A k \in DOMAIN client.delays : InBackoffWindow(client.delays[k], k)
  /\ client.pc = "request" => Len(client.delays) = client.requests

C11_Step ==
  /\ client'.requests # client.requests =>
       client.pc = "request" /\ client'.requests = client.requests + 1
  /\ (client.pc = "request" /\ client'.pc \in {"backoff", "thrown"}
        /\ Throttled(client'.last)) =>
       IF client'.requests < 5
       THEN client'.pc = "backoff" /\ InBackoffWindow(client'.wait, client'.requests)
       ELSE client'.pc = "thrown"
  /\ client.pc = "backoff" =>
       client'.pc = "request" /\ client'.delays = Append(client.delays, client.wait)

\* C11: after the k-th consecutive throttling or overload failure, k < 5, the
\* client waits at least 10 s * 2^(k-1) and less than 2 s more before attempt
\* k + 1; it makes at most 5 attempts, and fails when the 5th attempt fails.
C11_RetryBackoff == []C11_Inv /\ [][C11_Step]_vars

C11_Witness ==
  /\ client.pc = "returned"
  /\ client.requests = 3
  /\ Len(client.delays) = 2
  /\ client.delays[1] >= 10000 /\ client.delays[2] >= 20000
  /\ client.last.status = 429

\* C12: a failure that is neither throttling nor overload is not retried: the
\* client is never in a backoff delay after such a failure.
C12_NoRetryOther == client.pc = "backoff" => Throttled(client.last)

Count(q, x) == Cardinality({k \in DOMAIN q : q[k] = x})

QueuedSent(msgs, j) ==
  \E n \in DOMAIN msgs :
    /\ msgs[n].type = "FILE_PROGRESS" /\ msgs[n].fileId = j
    /\ msgs[n].payload.status = "queued"

C13_Inv == \A j \in Ids : Count(accepted, j) <= 1 /\ Count(fileQueue, j) <= 1

C13_Step ==
  \A j \in Ids :
    ~(j \in jobs /\ obj[j].status = "idle") =>
      /\ Count(fileQueue', j) <= Count(fileQueue, j)
      /\ Count(accepted', j) = Count(accepted, j)
      /\ ~QueuedSent(emitted', j)
      /\ obj'[j].status = "queued" => obj[j].status = "queued"
      /\ obj'[j].selectedRange \in {obj[j].selectedRange, NoRange}

CompleteSent(msgs, j) ==
  \E n \in DOMAIN msgs : msgs[n].type = "FILE_COMPLETE" /\ msgs[n].fileId = j

C14_Step ==
  \A j \in Ids :
    /\ (j \in jobs /\ j \notin jobs') =>
         /\ j \notin fileStorage'
         /\ j \notin SeqRange(fileQueue')
         /\ run' = run /\ isProcessingFile' = isProcessingFile
    /\ (j \notin jobs /\ Active(j)) =>
         /\ j \notin jobs' /\ j \notin fileStorage'
         /\ (run[j].pc = "call" /\ run'[j].pc # "call") =>
              /\ jobs' = jobs /\ fileStorage' = fileStorage
              /\ run'[j].pc \in {"sleep", "resume"}
         /\ (run[j].pc = "resume" /\ run'[j].pc = "none" /\ fileQueue # << >>) =>
              Head(fileQueue) \in SeqRange(started')

\* C14: deleting a Job that is being processed removes it and its bytes from
\* the store at once and leaves the run alone; when its batch in flight
\* completes the store is unchanged and the run goes on without error; the
\* Job is never put back, its run ends, and the queued Jobs are served.
C14_DeleteMidRun ==
  /\ [][C14_Step]_vars
  /\ \A j \in Ids : (j \notin jobs /\ Active(j)) ~> ~Active(j)
  /\ \A j \in Ids, k \in Ids :
       (j \notin jobs /\ Active(j) /\ k \in SeqRange(fileQueue)) ~>
         (k \notin jobs \/ k \in SeqRange(started))

C14_Witness ==
  \E j \in Ids \ jobs, k \in jobs :
    /\ j \notin fileStorage
    /\ run[j].pc = "resume"
    /\ Len(calls[j]) = 2
    /\ CompleteSent(emitted, j)
    /\ fileQueue = <<k>>

C15_Inv ==
  download.pc = "done" =>
    /\ download.cause \in {"missing", "throws"} => download.result = "null"
    /\ download.cause = "none" => download.result = "blob"

C15_Step ==
  download' # download =>
    /\ jobs' = jobs /\ fileStorage' = fileStorage /\ obj' = obj
    /\ fileQueue' = fileQueue /\ run' = run /\ isProcessingFile' = isProcessingFile
    /\ calls' = calls /\ lastProgress' = lastProgress

\* C15: a step of generateDownload, whether it starts the reassembly, ends it
\* with a blob, ends it with a throw or finds the Job or its bytes missing,
\* changes no Job and no segment, and the two failures end in the null result.
C15_DownloadFrame == []C15_Inv /\ [][C15_Step]_vars

C15_Witness ==
  /\ download.pc = "done" /\ download.cause = "throws" /\ download.result = "null"
  /\ download.fileId \in jobs
  /\ obj[download.fileId].status = "completed"
  /\ HasRange(obj[download.fileId])
  /\ Len(segmentsToDownload(obj[download.fileId])) < Len(obj[download.fileId].segments)
  /\ \E k \in DOMAIN obj[download.fileId].segments :
       obj[download.fileId].segments[k].translated # << >>

\* C16 as stated: on the runs "Hello ", "world", "!!!" whose joined text is a
\* key, the dominant run is "world".
C16_DominantWorld ==
  (docx.runs = <<HelloRun, WorldRun, BangRun>> /\ docx.dominant # 0) =>
    docx.runs[docx.dominant] = WorldRun

\* C16, amended: on the runs "Hello ", "world", "!!!" whose joined text is a
\* key and none of which is a key alone, the dominant run is "Hello ", the
\* longest run with meaningful content, and not "!!!"; it takes the whole
\* translation and the two other runs are emptied.
C16_DominantHello ==
  (docx.runs = <<HelloRun, WorldRun, BangRun>> /\ docx.dominant # 0) =>
    /\ docx.runs[docx.dominant] = HelloRun
    /\ docx.out = <<docx.map[Trim(Flatten(docx.runs))], << >>, << >>>>

C16_Witness ==
  /\ docx.runs = <<HelloRun, WorldRun, BangRun>>
  /\ Trim(Flatten(docx.runs)) \in DOMAIN docx.map
  /\ docx.dominant = 1
  /\ docx.out = <<<<"t">>, << >>, << >>>>

\* C17 as stated: the Job made from a file whose parsing failed has no
\* segment, and none of its segments is the text of the error marker.
C17_ParseFailureNoSegment ==
  [][\A u \in uploading :
       (u.file.ext = "bad" /\ u.id \in jobs' \ jobs) =>
         /\ obj'[u.id].status = "idle"
         /\ obj'[u.id].segments = << >>]_vars

BatchSent(msgs) == \E n \in DOMAIN msgs : msgs[n].type = "BATCH_COMPLETE"

AllTerminal(J, o) == \A k \in J : o[k].status \in {"completed", "error", "idle"}

RunFinishes(j) == run[j].pc # "resume" /\ run'[j].pc = "resume"

C18_Step ==
  /\ \A j \in Ids :
       RunFinishes(j) => (BatchSent(emitted') <=> (jobs' # {} /\ AllTerminal(jobs', obj')))
  /\ BatchSent(emitted') => \E j \in Ids : RunFinishes(j) /\ CompleteSent(emitted', j)

\* C18: the step that ends a run of processFile emits BATCH_COMPLETE exactly
\* when the store is not empty and each of its Jobs is completed, error or
\* idle; no other step emits it, and it is never among the events of a step
\* that leaves a Job of the store queued or processing.
C18_BatchComplete ==
  /\ [](BatchSent(emitted) => (jobs # {} /\ AllTerminal(jobs, obj)))
  /\ [][C18_Step]_vars

C18_Witness ==
  /\ BatchSent(emitted)
  /\ Cardinality(jobs) = 2
  /\ \A k \in jobs : obj[k].status = "completed"
  /\ Len(finished) = 2

JobRank(status) ==
  CASE status = "idle" -> 0
    [] status = "queued" -> 1
    [] status = "processing" -> 2
    [] OTHER -> 3

StatusSent(msgs, j, status) ==
  {n \in DOMAIN msgs : /\ msgs[n].type = "FILE_PROGRESS"
                       /\ msgs[n].fileId = j
                       /\ msgs[n].payload.status = status}

Attempted(job) ==
  \A k \in ScopeOf(job) : job.segments[k].status \in {"completed", "warning"}

C19_Inv ==
  \A j \in Ids :
    /\ obj[j].status \in {"none", "idle", "queued", "processing", "completed"}
    /\ obj[j].status = "queued" <=> j \in SeqRange(fileQueue)
    /\ obj[j].status = "processing" => Active(j)
    /\ obj[j].status = "completed" => Attempted(obj[j])

C19_Step ==
  \A j \in Ids :
    LET a == obj[j].status
        b == obj'[j].status
    IN /\ (a = "none" /\ b # "none") => b = "idle"
       /\ (a # "none" /\ b # "none") =>
            /\ JobRank(b) >= JobRank(a)
            /\ (a = "idle" /\ b # "idle") =>
                 /\ accepted' = Append(accepted, j)
                 /\ StatusSent(emitted', j, "queued") # {}
            /\ (JobRank(a) < 2 /\ JobRank(b) >= 2) =>
                 /\ started' = Append(started, j)
                 /\ a = "queued" => j = Head(fileQueue)
                 /\ j \notin SeqRange(fileQueue')
                 /\ StatusSent(emitted', j, "processing") # {}
                 /\ \A q \in StatusSent(emitted', j, "queued") :
                      \A p \in StatusSent(emitted', j, "processing") : q < p
            /\ (a # "completed" /\ b = "completed") =>
                 /\ CompleteSent(emitted', j)
                 /\ Attempted(obj'[j])
            /\ a = "completed" => obj'[j].segments = obj[j].segments

\* C19: the status of a Job only moves idle, queued, processing, completed:
\* it leaves idle only at an accepted startProcessing, becomes processing
\* only when it is taken from the head of the queue, becomes completed only
\* when every segment in scope is completed or warning, never moves back,
\* and is never error once the Job exists.
C19_JobLifecycle == []C19_Inv /\ [][C19_Step]_vars

C19_Witness ==
  \E j \in jobs, k \in jobs :
    /\ obj[j].status = "completed" /\ run[j].pc = "resume"
    /\ Len(obj[j].segments) = 3
    /\ \E n \in DOMAIN obj[j].segments : obj[j].segments[n].status = "warning"
    /\ \E n \in DOMAIN obj[j].segments : obj[j].segments[n].status = "completed"
    /\ obj[k].status = "queued"

\* C20 as stated: while the translation client is at work on a batch, every
\* segment of the batch is translating in the segment store of the Job.
C20_BatchTranslating ==
  \A j \in Ids :
    run[j].pc = "call" =>
      \A k \in SeqRange(run[j].batch) : obj[j].segments[k].status = "translating"

\* the positions in scope, in ascending order
ScopeSeq(job) == SelectSeq([k \in 1..Len(job.segments) |-> k], LAMBDA k : k \in ScopeOf(job))

RECURSIVE BatchChars(_, _)
BatchChars(job, batch) ==
  IF batch = << >> THEN 0
  ELSE StrLen(job.segments[Head(batch)].original) + BatchChars(job, Tail(batch))

Submitted(j) == Flatten([c \in DOMAIN calls[j] |-> calls[j][c].batch])

\* C21: the batches handed to the translation client, one call each, are
\* consecutive runs of the segments in scope in ascending order: joined in the
\* order of the calls they are a prefix of the scope, and the whole scope once
\* the Job is completed; a batch that does not end with the last segment in
\* scope has at least 2000 characters, and every batch has fewer than 2000
\* without its last segment.
C21_BatchAssembly ==
  \A j \in Ids :
    obj[j].status \in {"processing", "completed"} =>
      /\ Len(Submitted(j)) <= Len(ScopeSeq(obj[j]))
      /\ Submitted(j) = SubSeq(ScopeSeq(obj[j]), 1, Len(Submitted(j)))
      /\ obj[j].status = "completed" => Submitted(j) = ScopeSeq(obj[j])
      /\ \A c \in DOMAIN calls[j] :
           LET batch == calls[j][c].batch
           IN /\ batch # << >>
              /\ BatchChars(obj[j], SubSeq(batch, 1, Len(batch) - 1)) < MAX_BATCH_CHARS
              /\ batch[Len(batch)] # ScopeSeq(obj[j])[Len(ScopeSeq(obj[j]))] =>
                   BatchChars(obj[j], batch) >= MAX_BATCH_CHARS

C21_Witness ==
  \E j \in jobs :
    /\ obj[j].status = "completed"
    /\ Len(calls[j]) = 2
    /\ calls[j][1].batch = <<1, 2>>
    /\ BatchChars(obj[j], <<1, 2>>) = MAX_BATCH_CHARS
    /\ calls[j][2].batch = <<3>>

\* the segment indexes of the completion and warning events of Job j, in order
SettledSent(msgs, j) ==
  LET settled == SelectSeq(msgs, LAMBDA m :
                   /\ m.fileId = j
                   /\ \/ m.type = "SEGMENT_WARNING"
                      \/ m.type = "SEGMENT_TRANSLATION" /\ m.payload.status # "translating")
  IN [n \in DOMAIN settled |-> settled[n].index]

Ascending(q) == \A a \in DOMAIN q : \A b \in DOMAIN q : a < b => q[a] < q[b]

InFlight(j) == {c \in DOMAIN calls[j] : calls[j][c].result = "pending"}

C22_Inv ==
  \A j \in Ids :
    /\ Cardinality(InFlight(j)) <= 1
    /\ InFlight(j) \subseteq {Len(calls[j])}
    /\ InFlight(j) # {} <=> run[j].pc = "call"
    /\ Ascending(Submitted(j))

C22_Step ==
  \A j \in Ids :
    LET settled == SettledSent(emitted', j)
    IN /\ Ascending(settled)
       /\ IF run[j].pc = "call" /\ run'[j].pc # "call"
          THEN /\ settled = [k \in DOMAIN run[j].batch |->
                               obj[j].segments[run[j].batch[k]].index]
               /\ \A c \in 1..(Len(calls[j]) - 1) : \A p \in SeqRange(calls[j][c].batch) :
                    \A n \in DOMAIN settled : obj[j].segments[p].index < settled[n]
               /\ Len(calls'[j]) = Len(calls[j])
          ELSE settled = << >>

\* C22: a Job has at most one call of the translation client in flight, the
\* last one made; the segments of its calls, in call order, have ascending
\* indexes; and the completion and warning events of a Job are those of the
\* batch whose call has just ended, in ascending index order and above the
\* indexes of every earlier batch.
C22_InOrder == []C22_Inv /\ [][C22_Step]_vars

C22_Witness ==
  \E j \in jobs :
    /\ Len(calls[j]) = 2
    /\ calls[j][1].result = "failed" /\ calls[j][2].result = "ok"
    /\ calls[j][1].batch = <<1, 2>>
    /\ SettledSent(emitted, j) = <<2>>

C23_Inv ==
  \A j \in Ids :
    LET segs == obj[j].segments
    IN \A k \in DOMAIN segs :
         /\ segs[k].index = k - 1
         /\ ~IsBlank(segs[k].original)
         /\ \A m \in DOMAIN segs : segs[m].id = segs[k].id => m = k

C23_Step ==
  \A j \in Ids :
    (obj[j].status # "none" /\ obj'[j].status # "none") =>
      /\ Len(obj'[j].segments) = Len(obj[j].segments)
      /\ \A k \in DOMAIN obj[j].segments :
           /\ obj'[j].segments[k].id = obj[j].segments[k].id
           /\ obj'[j].segments[k].index = obj[j].segments[k].index
           /\ obj'[j].segments[k].original = obj[j].segments[k].original
           /\ obj'[j].segments[k].pageNumber = obj[j].segments[k].pageNumber

\* C23: the segment at position i of a Job has index i - 1 counted from one
\* (dense, zero-based), an id no other segment of the Job has and an original
\* that is not blank; and while the Job object exists no step changes the
\* length of the sequence or the id, index, original or page of a segment.
C23_SegmentSequence == []C23_Inv /\ [][C23_Step]_vars

C23_Witness ==
  \E j \in jobs :
    /\ obj[j].status = "completed"
    /\ Len(obj[j].segments) = 3
    /\ obj[j].segments[1].status = "warning"
    /\ obj[j].segments[3].original = <<" ", "a", " ">>
    /\ obj[j].segments[3].translated # << >>

\* C24 as stated: the Job made from a PPTX has the slide count as pageCount
\* and each of its segments carries the number of the slide its text is on;
\* each segment of a PDF carries the number of its page; the segments of
\* every other format carry no page number.
C24_PageAttribution ==
  [][\A u \in uploading :
       u.id \in jobs' \ jobs =>
         LET job == obj'[u.id]
             body == u.file.body
         IN \A k \in DOMAIN job.segments :
              LET seg == job.segments[k]
                  p == seg.pageNumber
              IN CASE u.file.ext = "pptx" ->
                        /\ job.pageCount = Len(body)
                        /\ p \in 1..Len(body)
                        /\ seg.original \in SeqRange(body[p]) \cup {SlideLabel(p)}
                   [] u.file.ext = "pdf" ->
                        /\ job.pageCount = Len(body)
                        /\ p \in 1..Len(body)
                        /\ seg.original \in SeqRange(body[p]) \cup {PageLabel(p), EmptyPage}
                   [] OTHER -> p = 0]_vars

\* the runs of the paragraph that are keys by themselves
ExactRuns(p) ==
  {k \in DOMAIN p.runs : Trim(p.runs[k]) # << >> /\ Trim(p.runs[k]) \in DOMAIN p.map}

RestRuns(p) == (DOMAIN p.runs) \ ExactRuns(p)

RestKey(p) ==
  Trim(Flatten([k \in DOMAIN p.runs |-> IF k \in RestRuns(p) THEN p.runs[k] ELSE << >>]))

ContentRuns(p) ==
  {k \in RestRuns(p) : \E c \in DOMAIN p.runs[k] : p.runs[k][c] \notin {" ", "_"}}

Candidates(p) == IF ContentRuns(p) # {} THEN ContentRuns(p) ELSE RestRuns(p)

FirstLongest(p, k) ==
  /\ k \in Candidates(p)
  /\ \A m \in Candidates(p) :
       \/ Len(p.runs[m]) < Len(p.runs[k])
       \/ Len(p.runs[m]) = Len(p.runs[k]) /\ k <= m

InRange(job) ==
  LET keep(k) == \/ job.selectedRange = NoRange
                 \/ job.segments[k].pageNumber = 0
                 \/ job.segments[k].pageNumber \in job.selectedRange.start..job.selectedRange.end
      at == SelectSeq([k \in 1..Len(job.segments) |-> k], LAMBDA k : keep(k))
  IN [n \in DOMAIN at |-> at[n] - 1]

IsPrefix(p, q) == Len(p) <= Len(q) /\ p = SubSeq(q, 1, Len(p))

Adders(q) == Cardinality({k \in DOMAIN q : q[k] = "adder"})

\* C27: no step shortens or reorders the listeners; a broadcast calls each
\* observer registered before it began once, in registration order, and no
\* other; each adding observer among them has registered its new observer
\* (while there is room), which is not called for this message.
C27_EventBus ==
  [][/\ IsPrefix(bus.listeners, bus'.listeners)
     /\ bus'.msg # "none" =>
          /\ bus'.delivered = [k \in 1..Len(bus.listeners) |-> k]
          /\ Len(bus'.listeners) = Min(MaxListeners, Len(bus.listeners) + Adders(bus.listeners))]_vars

C27_Witness ==
  /\ bus.msg = "FILE_PROGRESS"
  /\ bus.listeners = <<"plain", "adder", "plain", "plain">>
  /\ bus.delivered = <<1, 2, 3>>

\* C28 as stated: while a Job that was deleted during its processing is still
\* being run, no step makes a new call of the translation client for it.
C28_NoCallAfterDelete ==
  [][\A j \in Ids : (j \notin jobs /\ Active(j)) => Len(calls'[j]) <= Len(calls[j])]_vars

\* C29 as stated: every Job of the job store has its file bytes in the file
\* store under the same id.
C29_JobHasBytes == jobs \subseteq fileStorage

\* C30: between two tasks the queue holds no id twice and only ids of Jobs of
\* the store, and a Job of the store is queued exactly when its id is in the
\* queue.
C30_QueueInvariant ==
  /\ \A a \in DOMAIN fileQueue : \A b \in DOMAIN fileQueue :
       fileQueue[a] = fileQueue[b] => a = b
  /\ SeqRange(fileQueue) \subseteq jobs
  /\ \A j \in jobs : obj[j].status = "queued" <=> j \in SeqRange(fileQueue)

C30_Witness ==
  /\ Len(fileQueue) = 2
  /\ fileQueue[1] # fileQueue[2]
  /\ \E j \in jobs : Running(j) /\ obj[j].status = "processing"
  /\ \A k \in SeqRange(fileQueue) : k \in jobs /\ obj[k].status = "queued"
  /\ Len(finished) = 0

====
